---------------------------- MODULE Spec2Model ----------------------------
(***************************************************************************)
(* A state-machine model of gifdec.c: gd_open_gif, gd_get_frame and the    *)
(* functions they call (read_ext and the extension readers,                *)
(* discard_sub_blocks, read_image, read_image_data, new_table, add_entry,  *)
(* get_key).  The byte source is the pair (file, pos); a read past the end *)
(* of the file transfers nothing and leaves its buffer as it was.          *)
(***************************************************************************)
EXTENDS Integers, Sequences, FiniteSets, TLC

VARIABLES
    file,     \* the bytes of the file behind gif->fd
    pos,      \* the file offset of gif->fd (bytes before it are consumed)
    pc,       \* where the program is
    handle,   \* what gd_open_gif returned: "none" yet, "NULL", "gif", "wild"
    result,   \* what the last gd_get_frame call returned
    gif,      \* the gd_GIF structure (all but the raster)
    frame,    \* gif->frame, the width*height raster
    sep,      \* gd_get_frame's local sep
    size,     \* discard_sub_blocks' local size
    lzw,      \* read_image_data's locals
    table,    \* read_image_data's Table (bulk, nentries, entries)
    hist,     \* history: what the current call has done (for the properties)
    layout    \* how the file was written: its blocks, in order (never changes)

vars == <<file, pos, pc, handle, result, gif, frame, sep, size, lzw, table,
          hist, layout>>

-----------------------------------------------------------------------------
(* Bounds of the model *)

\* how many gd_get_frame calls a run makes
MaxCalls == 2
\* how many codes the short code streams hold between the first CLEAR and STOP
MaxCodes == 3
\* how many blocks follow the header in the files built from blocks
MaxBlocks == 2

-----------------------------------------------------------------------------
(* Arithmetic of the C code *)

RECURSIVE Pow2(_)
\* 1 << n
Pow2(n) == IF n = 0 THEN 1 ELSE 2 * Pow2(n - 1)

\* a >> n
Shr(a, n) == a \div Pow2(n)

\* line 256 left out: every bit of a kept
AllBits(a, n) == a

\* the low n bits of a: a & ((1 << n) - 1)
LowBits(a, n) == a % Pow2(n)

RECURSIVE BitOrN(_, _, _)
\* a | b over the low n bits
BitOrN(a, b, n) ==
    IF n = 0 THEN 0
    ELSE (IF a % 2 = 1 \/ b % 2 = 1 THEN 1 ELSE 0)
         + 2 * BitOrN(a \div 2, b \div 2, n - 1)

\* a | b stored into a uint16_t
BitOr16(a, b) == BitOrN(a % 65536, b % 65536, 16)

\* (n & (n - 1)) == 0, for n > 0: n is a power of two
RECURSIVE IsPow2(_)
IsPow2(n) == IF n = 1 THEN TRUE ELSE IF n % 2 = 1 THEN FALSE ELSE IsPow2(n \div 2)

MIN(A, B) == IF A < B THEN A ELSE B
MAX(A, B) == IF A > B THEN A ELSE B

-----------------------------------------------------------------------------
(* The byte source: read() and lseek() on gif->fd *)

\* how many bytes a read of n bytes at offset p transfers
Got(p, n) == MIN(n, MAX(Len(file) - p, 0))

\* the byte at offset p (p < Len(file))
ByteAt(p) == file[p + 1]

\* read(fd, &v, 1) at offset p into a variable holding old
Read1(p, old) == IF p < Len(file) THEN ByteAt(p) ELSE old

\* the offset after read(fd, buf, n) at offset p
AfterRead(p, n) == p + Got(p, n)

\* the offset after lseek(fd, n, SEEK_CUR) at offset p.  Only reads and forward
\* seeks are made on the descriptor, and they behave alike from every offset
\* at or past the end of the file: those offsets are kept as one, Len(file).
AfterSeek(p, n) == MIN(p + n, Len(file))

\* read_num: two bytes, little endian; bytes[] keeps g where nothing was read
ReadNum(p, g) == Read1(p, g) + 256 * Read1(p + 1, g)

-----------------------------------------------------------------------------
(* The LZW code table: new_table, add_entry *)

\* the prefix of an entry that has none (a literal)
NoPrefix == 4095
\* the number of entries at which the table is full
TableCap == 4096
\* the least initial capacity of a table
MinBulk == 256

\* an Entry {length, prefix, suffix}, and its fields
Entry(l, p, s) == <<l, p, s>>
length(e) == e[1]
prefix(e) == e[2]
suffix(e) == e[3]

\* The entries are kept as a sequence: entry i is entries[i + 1], and the
\* sequence is as long as the highest index ever stored plus one.  new_table
\* stores the literals only: the two slots after them (the CLEAR and STOP codes)
\* and every slot from Len(entries) on hold what malloc left there.
Slot(t, i) == t.entries[i + 1]

\* whether entry i of table t has been stored by new_table or add_entry
Stored(t, i, clear) == i >= 0 /\ i < Len(t.entries) /\ i # clear /\ i # clear + 1

\* new_table(key_size)
new_table(key_size) ==
    [bulk     |-> MAX(Pow2(key_size + 1), MinBulk),
     nentries |-> Pow2(key_size) + 2,
     entries  |-> [i \in 1..(Pow2(key_size) + 2) |->
                     IF i <= Pow2(key_size) THEN Entry(1, NoPrefix, i - 1)
                     ELSE Entry(0, 0, 0)]]

\* table->entries[i] = e
Store(entries, i, e) ==
    IF i < Len(entries) THEN [entries EXCEPT ![i + 1] = e]
    ELSE Append(entries, e)

\* add_entry were it to store the sentinel 0xFFF as the prefix of the entry
add_entry_unlinked(t, len, pre, suf) ==
    [table |-> [bulk     |-> IF t.nentries = t.bulk THEN 2 * t.bulk ELSE t.bulk,
                nentries |-> t.nentries + 1,
                entries  |-> Store(t.entries, t.nentries,
                                   Entry(len % 65536, NoPrefix, suf))],
     ret   |-> IF IsPow2(t.nentries + 1) THEN 1 ELSE 0]

\* add_entry(&table, length, prefix, suffix) when realloc (if called) succeeds:
\* the table after it and the value returned
add_entry(t, len, pre, suf) ==
    [table |-> [bulk     |-> IF t.nentries = t.bulk THEN 2 * t.bulk ELSE t.bulk,
                nentries |-> t.nentries + 1,
                entries  |-> Store(t.entries, t.nentries,
                                   Entry(len % 65536, pre, suf))],
     ret   |-> IF IsPow2(t.nentries + 1) THEN 1 ELSE 0]

-----------------------------------------------------------------------------
(* get_key: the next key_size bits of the sub-block chain *)

\* One pass of get_key's for loop and the passes after it.  st holds key, pos,
\* sub_len, byte and zero_len (history: a length byte read as 0).
RECURSIVE GetKeyLoop(_, _, _, _)
GetKeyLoop(st, key_size, shift, bits_read) ==
    IF bits_read >= key_size THEN st
    ELSE
      LET rpad == (shift + bits_read) % 8
          \* if (*sub_len == 0) read(gif->fd, sub_len, 1);
          needLen == rpad = 0 /\ st.sub_len = 0
          len  == IF needLen THEN Read1(st.pos, st.sub_len) ELSE st.sub_len
          p1   == IF needLen THEN AfterRead(st.pos, 1) ELSE st.pos
          \* read(gif->fd, byte, 1); (*sub_len)--;
          byte == IF rpad = 0 THEN Read1(p1, st.byte) ELSE st.byte
          p2   == IF rpad = 0 THEN AfterRead(p1, 1) ELSE p1
          sub  == IF rpad = 0 THEN (len + 255) % 256 ELSE len
          frag_size == MIN(key_size - bits_read, 8 - rpad)
          key  == BitOr16(st.key, Shr(byte, rpad) * Pow2(bits_read))
      IN  GetKeyLoop([key |-> key, pos |-> p2, sub_len |-> sub, byte |-> byte,
                      zero_len |-> st.zero_len
                                     \/ (needLen /\ st.pos < Len(file) /\ len = 0),
                      eof |-> st.eof \/ (rpad = 0 /\ p1 >= Len(file))],
                     key_size, shift, bits_read + frag_size)

\* get_key(gif, key_size, &sub_len, &shift, &byte) at offset p
get_key(p, key_size, sub_len, shift, byte) ==
    LET st == GetKeyLoop([key |-> 0, pos |-> p, sub_len |-> sub_len, byte |-> byte,
                          zero_len |-> FALSE, eof |-> FALSE],
                         key_size, shift, 0)
    IN  [key      |-> LowBits(st.key, key_size),
         pos      |-> st.pos,
         sub_len  |-> st.sub_len,
         byte     |-> st.byte,
         shift    |-> (shift + key_size) % 8,
         zero_len |-> st.zero_len,
         eof      |-> st.eof]

-----------------------------------------------------------------------------
(* The files: the container format the code parses, written out.  These      *)
(* build the inputs; the decoder never sees anything but the bytes.          *)

\* a 16-bit number as read_num reads it
LE16(n) == <<n % 256, n \div 256>>

\* the w bits of v, least significant first
BitsOf(v, w) == [i \in 1..w |-> (v \div Pow2(i - 1)) % 2]

\* the bits of the codes cs[i..j], each a pair <<value, width>>, in order
RECURSIVE CodeBits(_, _, _)
CodeBits(cs, i, j) ==
    IF i > j THEN <<>>
    ELSE IF i = j THEN BitsOf(cs[i][1], cs[i][2])
    ELSE LET m == (i + j) \div 2
         IN  CodeBits(cs, i, m) \o CodeBits(cs, m + 1, j)

\* bits packed into bytes, least significant bit first, the last byte padded
BytesOf(bits) ==
    [k \in 1..((Len(bits) + 7) \div 8) |->
        LET B(b) == IF 8 * (k - 1) + b + 1 <= Len(bits)
                    THEN bits[8 * (k - 1) + b + 1] * Pow2(b) ELSE 0
        IN  B(0) + B(1) + B(2) + B(3) + B(4) + B(5) + B(6) + B(7)]

\* the packed bytes of a code sequence
Pack(cs) == BytesOf(CodeBits(cs, 1, Len(cs)))

\* data as a chain of sub-blocks of n bytes (the last one shorter), without
\* the terminator
Chunks(data, n) ==
    LET L == Len(data)
        full == L \div n
        rest == L % n
        total == L + full + (IF rest > 0 THEN 1 ELSE 0)
    IN  [q \in 1..total |->
            LET c == (q - 1) \div (n + 1)
                o == (q - 1) % (n + 1)
            IN  IF o = 0 THEN MIN(n, L - c * n) ELSE data[c * n + o]]

\* a whole chain: the sub-blocks and the zero length that ends them
Chain(data, n) == Chunks(data, n) \o <<0>>

\* the width a conforming writer gives the j-th code after a CLEAR (j >= 1):
\* K+1 bits, one more each time the writer's next free code no longer fits,
\* never more than 12
RECURSIVE BitLen(_)
BitLen(n) == IF n = 0 THEN 0 ELSE 1 + BitLen(n \div 2)
WriterWidth(K, j) ==
    IF j <= 1 THEN K + 1
    ELSE MIN(12, MAX(K + 1, BitLen(Pow2(K) + j)))

\* how many codes precede code i since the last CLEAR before it, plus one
SinceClear(K, vals, i) ==
    LET cl == {k \in 1..(i - 1) : vals[k] = Pow2(K)}
    IN  IF cl = {} THEN i
        ELSE i - (CHOOSE k \in cl : \A m \in cl : m <= k)

\* code values with the widths a conforming writer gives them; the first code
\* is written with K+1 bits
Written(K, vals) ==
    [i \in 1..Len(vals) |->
        <<vals[i], IF i = 1 THEN K + 1 ELSE WriterWidth(K, SinceClear(K, vals, i))>>]

-----------------------------------------------------------------------------
(* gd_open_gif *)

\* the values an uninitialised byte is taken to hold: 0, '!', ',', ';', 0xF0
UninitBytes == {0, 33, 44, 59, 240}

\* read(fd, buf, n) at offset p into a buffer holding old
ReadBuf(p, n, old) ==
    [i \in 1..n |-> IF p + i - 1 < Len(file) THEN file[p + i] ELSE old[i]]

\* the gd_GIF structure before gd_open_gif has made one
NoGif ==
    [width |-> 0, height |-> 0,
     gce |-> [disposal |-> 0, input |-> 0, transparency |-> 0, delay |-> 0,
              tindex |-> 0],
     loop_count |-> 0, palette |-> "none",
     gct |-> [size |-> 0, colors |-> <<>>],
     lct |-> [size |-> 0, colors |-> <<>>]]

\* read_image_data's locals and table outside read_image_data
NoLzw == [live |-> FALSE]
NoTable == [bulk |-> 0, nentries |-> 0, entries |-> <<>>]

\* The history of the current gd_get_frame call: how many calls there have
\* been, the offset the call started at, the offset the separator in sep was
\* read at (-1: nothing was read), the offset of the ',' of the image being
\* decoded (-1: none), whether get_key has read a length byte of 0, whether
\* a key has been read that is not below nentries, the
\* linear offsets the last pass of the decoding loop wrote and the pairs of
\* such an offset and the index of gif->frame written for it, the index of the
\* entry that pass added (-1: none), the key that pass began with (-1: there
\* has been no pass), frm_off after the
\* last pass that wrote, the h of the image descriptor, and what befell the
\* call from outside the stream: "nomem" (realloc failed), or what made the
\* behaviour undefined.
NoHist == [calls |-> 0, call_pos |-> 0, sep_at |-> -1, img_at |-> -1,
           zero_len |-> FALSE, wild |-> FALSE, wr |-> {}, at |-> {},
           added |-> -1, prev |-> -1, npix |-> 0,
           h |-> 0,
           fault |-> "none"]

\* What gd_open_gif does with the header (lines 49 to 81), g standing for
\* every byte it uses without having read it.
OpenHeader(g) ==
    LET sig == ReadBuf(0, 3, <<g, g, g>>)
        p1  == AfterRead(0, 3)
        ver == ReadBuf(p1, 3, sig)
        p2  == AfterRead(p1, 3)
        width  == ReadNum(p2, g)
        p3  == AfterRead(p2, 2)
        height == ReadNum(p3, g)
        p4  == AfterRead(p3, 2)
        fdsz == Read1(p4, g)
        p5  == AfterRead(p4, 1)
    IN  [sig_ok |-> sig = <<71, 73, 70>>,
         ver_ok |-> ver = <<56, 57, 97>>,
         width |-> width, height |-> height, fdsz |-> fdsz,
         gct_ok |-> (fdsz \div 128) % 2 = 1,
         depth_ok |-> (fdsz \div 16) % 8 = 7,
         gct_sz |-> Pow2((fdsz % 8) + 1),
         \* after bgidx and aspect
         pos |-> AfterRead(AfterRead(p5, 1), 1)]

\* whether the header passes the checks of lines 50, 56, 66 and 71
HeaderOk(h) == h.sig_ok /\ h.ver_ok /\ h.gct_ok /\ h.depth_ok

\* whether gd_open_gif uses a byte it has not read
OpenUsesUninit == Len(file) < 11

\* gd_open_gif fails: open() fails (return NULL), or a check fails and the
\* code goes to fail, where it returns gif, which nothing has set yet (any
\* pointer value, NULL among them), or calloc fails (gif is NULL)
gd_open_gif_fail ==
    /\ pc = "start"
    /\ \E g \in (IF OpenUsesUninit THEN UninitBytes ELSE {0}) :
       \E how \in {"open", "check", "calloc"} :
       \E wild \in BOOLEAN :
         LET h == OpenHeader(g) IN
         /\ how = "check" => ~HeaderOk(h)
         /\ how = "calloc" => HeaderOk(h)
         /\ how # "check" => ~wild
         /\ handle' = IF wild THEN "wild" ELSE "NULL"
    /\ pc' = "closed"
    /\ UNCHANGED <<file, pos, result, gif, frame, sep, size, lzw, table, hist, layout>>

\* gd_open_gif succeeds: the structure is zeroed by calloc and filled in
gd_open_gif ==
    /\ pc = "start"
    /\ \E g \in (IF OpenUsesUninit THEN UninitBytes ELSE {0}) :
         LET h == OpenHeader(g) IN
         /\ HeaderOk(h)
         /\ gif' = [NoGif EXCEPT
                      !.width = h.width, !.height = h.height,
                      !.gct = [size |-> h.gct_sz,
                               colors |-> ReadBuf(h.pos, 3 * h.gct_sz,
                                                  [i \in 1..(3 * h.gct_sz) |-> 0])],
                      !.palette = "gct"]
         /\ frame' = [i \in 1..(h.width * h.height) |-> 0]
         /\ pos' = AfterRead(h.pos, 3 * h.gct_sz)
    /\ handle' = "gif"
    /\ pc' = "idle"
    /\ UNCHANGED <<file, result, sep, size, lzw, table, hist, layout>>

-----------------------------------------------------------------------------
(* gd_get_frame, read_ext and the extension readers *)

\* a value for a local that is read before anything is stored in it only if
\* the read at offset p transfers nothing
Uninit(p) == IF p >= Len(file) THEN UninitBytes ELSE {0}

\* gd_get_frame is called: line 360
gd_get_frame ==
    /\ pc = "idle"
    /\ hist.calls < MaxCalls
    /\ \E g \in Uninit(pos) : sep' = Read1(pos, g)
    /\ pos' = AfterRead(pos, 1)
    /\ pc' = "dispatch"
    /\ hist' = [NoHist EXCEPT !.calls = hist.calls + 1, !.call_pos = pos,
                               !.sep_at = IF pos < Len(file) THEN pos ELSE -1]
    /\ UNCHANGED <<file, handle, result, gif, frame, size, lzw, table, layout>>

\* line 362: the trailer
get_frame_trailer ==
    /\ pc = "dispatch"
    /\ sep = 59
    /\ result' = 0
    /\ pc' = "idle"
    /\ UNCHANGED <<file, pos, handle, gif, frame, sep, size, lzw, table, hist,
                   layout>>

\* line 366: no separator
get_frame_bad_sep ==
    /\ pc = "dispatch"
    /\ sep \notin {33, 44, 59}
    /\ result' = -1
    /\ pc' = "idle"
    /\ UNCHANGED <<file, pos, handle, gif, frame, sep, size, lzw, table, hist,
                   layout>>

\* line 367, after read_ext has returned at offset p
NextSep(p) ==
    /\ sep' = Read1(p, sep)
    /\ pos' = AfterRead(p, 1)
    /\ pc' = "dispatch"
    /\ size' = 0
    /\ hist' = [hist EXCEPT !.sep_at = IF p < Len(file) THEN p ELSE @]

\* discard_sub_blocks is entered at offset p
EnterDiscard(p) ==
    /\ \E g \in Uninit(p) : size' = g
    /\ pos' = p
    /\ pc' = "discard"
    /\ UNCHANGED <<sep, hist>>

\* read_ext's label, g standing for it when the read transfers nothing
Label(g) == Read1(pos, g)

\* read_plain_text_ext: label 0x01
read_plain_text_ext ==
    /\ pc = "dispatch" /\ sep = 33
    /\ \E g \in Uninit(pos) : Label(g) = 1
    /\ EnterDiscard(AfterSeek(AfterRead(pos, 1), 13))
    /\ UNCHANGED <<file, handle, result, gif, frame, lzw, table, layout>>

\* read_comment_ext: label 0xFE
read_comment_ext ==
    /\ pc = "dispatch" /\ sep = 33
    /\ \E g \in Uninit(pos) : Label(g) = 254
    /\ EnterDiscard(AfterRead(pos, 1))
    /\ UNCHANGED <<file, handle, result, gif, frame, lzw, table, layout>>

\* the fields read_graphic_control_ext stores, from the block at offset p
\* (after the label), g standing for rdit and for read_num's bytes when the
\* reads transfer nothing
GceFields(p, g) ==
    LET rdit == Read1(AfterSeek(p, 1), g)
        p2 == AfterRead(AfterSeek(p, 1), 1)
    IN  [disposal |-> (rdit \div 4) % 4,
         input |-> 2 * ((rdit \div 2) % 2),
         transparency |-> rdit % 2,
         delay |-> ReadNum(p2, g),
         tindex |-> Read1(AfterRead(p2, 2), gif.gce.tindex)]

\* read_graphic_control_ext: label 0xF9
read_graphic_control_ext ==
    /\ pc = "dispatch" /\ sep = 33
    /\ \E g \in Uninit(pos) : Label(g) = 249
    /\ LET p == AfterRead(pos, 1)
           p2 == AfterRead(AfterSeek(p, 1), 1)
       IN  /\ \E g \in Uninit(p2 + 1) : gif' = [gif EXCEPT !.gce = GceFields(p, g)]
           /\ NextSep(AfterSeek(AfterRead(AfterRead(p2, 2), 1), 1))
    /\ UNCHANGED <<file, handle, result, frame, lzw, table, layout>>

\* "NETSCAPF": line 160 comparing with another identifier
OtherIdentifier == <<78, 69, 84, 83, 67, 65, 80, 70>>

\* "NETSCAPE"
Netscape == <<78, 69, 84, 83, 67, 65, 80, 69>>

\* read_application_ext: label 0xFF
read_application_ext ==
    /\ pc = "dispatch" /\ sep = 33
    /\ \E g \in Uninit(pos) : Label(g) = 255
    /\ LET p  == AfterSeek(AfterRead(pos, 1), 1)
           p2 == AfterRead(AfterRead(p, 8), 3)
       IN  \E g \in Uninit(p + 7) :
             IF ReadBuf(p, 8, [i \in 1..8 |-> g]) = Netscape
             THEN /\ \E g2 \in Uninit(AfterSeek(p2, 2) + 1) :
                        gif' = [gif EXCEPT
                                  !.loop_count = ReadNum(AfterSeek(p2, 2), g2)]
                  /\ NextSep(AfterSeek(AfterRead(AfterSeek(p2, 2), 2), 1))
             ELSE /\ gif' = gif
                  /\ EnterDiscard(p2)
    /\ UNCHANGED <<file, handle, result, frame, lzw, table, layout>>

\* read_ext's default were it to skip the sub-blocks after the label, as the
\* readers of the known labels do
read_ext_unknown_skipping ==
    /\ pc = "dispatch" /\ sep = 33
    /\ \E g \in Uninit(pos) : Label(g) \notin {1, 249, 254, 255}
    /\ EnterDiscard(AfterRead(pos, 1))
    /\ UNCHANGED <<file, handle, result, gif, frame, lzw, table, layout>>

\* read_ext's default: any other label
read_ext_unknown ==
    /\ pc = "dispatch" /\ sep = 33
    /\ \E g \in Uninit(pos) : Label(g) \notin {1, 249, 254, 255}
    /\ NextSep(AfterRead(pos, 1))
    /\ UNCHANGED <<file, handle, result, gif, frame, lzw, table, layout>>

\* One pass of discard_sub_blocks' loop, and the return to line 367 when the
\* size read is 0.  When the read transfers nothing and size is not 0, no
\* later read transfers anything either and size stays as it is: the loop
\* never ends ("spin").
discard_sub_blocks ==
    /\ pc = "discard"
    /\ LET sz == Read1(pos, size)
           p  == AfterSeek(AfterRead(pos, 1), sz)
       IN  IF sz # 0
           THEN /\ size' = sz
                /\ pos' = p
                /\ pc' = IF pos >= Len(file) THEN "spin" ELSE pc
                /\ UNCHANGED <<sep, hist>>
           ELSE NextSep(p)
    /\ UNCHANGED <<file, handle, result, gif, frame, lzw, table, layout>>

-----------------------------------------------------------------------------
(* read_image and read_image_data *)

\* the values an uninitialised table slot is taken to hold
UninitEntries == {Entry(1, NoPrefix, 240), Entry(2, 0, 33)}

\* table->entries[i], junk being what the slots nothing was stored in hold
EntryAt(t, i, clear, junk) == IF Stored(t, i, clear) THEN Slot(t, i) ELSE junk

\* the index into gif->frame of the pixel at linear offset p: line 310
FrameIndex(x, y, w, p) == (y + (p \div w)) * gif.width + x + (p % w)

\* The loop of lines 308 to 315, from entry e (read from slot i) on, l being
\* read_image_data's locals and t the table.  st holds the raster, the
\* offsets written, the slots visited and whether an unstored slot was read.
\* status: "ok" (the loop ended at a literal), "cycle" (the prefixes lead back
\* to a slot already visited: the loop never ends), "div0" (w is 0 at line
\* 310), "oob" (the write is outside the raster).
RECURSIVE EmitLoop(_, _, _, _, _, _)
EmitLoop(st, e, i, junk, l, t) ==
    LET p == l.frm_off + length(e) - 1
        used == st.used_junk \/ ~Stored(t, i, l.clear)
    IN  IF l.w = 0
        THEN [st EXCEPT !.status = "div0", !.used_junk = used]
        ELSE IF FrameIndex(l.x, l.y, l.w, p) >= Len(st.frame)
        THEN [st EXCEPT !.status = "oob", !.wr = @ \cup {p}, !.used_junk = used]
        ELSE IF i \in st.seen
        THEN [st EXCEPT !.status = "cycle"]
        ELSE
          LET st2 == [st EXCEPT
                        !.frame[FrameIndex(l.x, l.y, l.w, p) + 1] = suffix(e),
                        !.wr = @ \cup {p},
                        !.at = @ \cup {<<p, FrameIndex(l.x, l.y, l.w, p)>>},
                        !.seen = @ \cup {i},
                        !.used_junk = used,
                        !.leaf = e]
          IN  IF prefix(e) = NoPrefix THEN st2
              ELSE EmitLoop(st2, EntryAt(t, prefix(e), l.clear, junk),
                            prefix(e), junk, l, t)

\* lines 306 to 315 for the key l.key, f being the raster before them
EmitOn(f, junk, l, t) ==
    EmitLoop([frame |-> f, wr |-> {}, at |-> {}, seen |-> {},
              used_junk |-> FALSE, leaf |-> Entry(0, 0, 0), status |-> "ok"],
             EntryAt(t, l.key, l.clear, junk), l.key, junk, l, t)

\* lines 306 to 315 for the key l.key
Emit(junk, l, t) == EmitOn(frame, junk, l, t)

\* read_image (lines 335 to 349) and read_image_data up to its loop (lines
\* 275 to 285), from offset p, g standing for the bytes used without having
\* been read
ImageStart(p, g) ==
    LET x == ReadNum(p, g)
        y == ReadNum(p + 2, g)
        w == ReadNum(p + 4, g)
        h == ReadNum(p + 6, g)
        p1 == AfterRead(AfterRead(AfterRead(AfterRead(p, 2), 2), 2), 2)
        fisrz == Read1(p1, g)
        p2 == AfterRead(p1, 1)
        has_lct == (fisrz \div 128) % 2 = 1
        lct_sz == Pow2((fisrz % 8) + 1)
        p3 == IF has_lct THEN AfterRead(p2, 3 * lct_sz) ELSE p2
        K  == Read1(p3, g)
        p4 == AfterRead(p3, 1)
    IN  [x |-> x, y |-> y, w |-> w, h |-> h,
         has_lct |-> has_lct, lct_sz |-> lct_sz, lct_pos |-> p2,
         K |-> K, pos |-> p4]

\* whether ImageStart at offset p uses a byte it has not read
ImageUsesUninit(p) == p + 10 > Len(file)

\* read_image, and read_image_data up to the top of its loop
read_image ==
    /\ pc = "dispatch" /\ sep = 44
    /\ \E g \in (IF ImageUsesUninit(pos) THEN UninitBytes ELSE {0}) :
         LET im == ImageStart(pos, g)
             \* line 283: the first key, read with K + 1 bits
             first == get_key(im.pos, im.K + 1, 0, 0, im.K)
         IN
         /\ im.K <= 11
         /\ gif' = IF im.has_lct
                   THEN [gif EXCEPT
                           !.lct = [size |-> im.lct_sz,
                                    colors |-> ReadBuf(im.lct_pos, 3 * im.lct_sz,
                                       [i \in 1..(3 * im.lct_sz) |->
                                          IF i <= Len(gif.lct.colors)
                                          THEN gif.lct.colors[i] ELSE 0])],
                           !.palette = "lct"]
                   ELSE [gif EXCEPT !.palette = "gct"]
         /\ table' = new_table(im.K)
         /\ lzw' = [live |-> TRUE, x |-> im.x, y |-> im.y, w |-> im.w,
                    sub_len |-> first.sub_len, shift |-> first.shift,
                    byte |-> first.byte,
                    init_key_size |-> im.K + 1, key_size |-> im.K + 1,
                    table_is_full |-> 0, frm_off |-> 0, str_len |-> 0,
                    key |-> first.key,
                    clear |-> Pow2(im.K) % 65536,
                    stop |-> (Pow2(im.K) + 1) % 65536,
                    ret |-> 0, entry |-> Entry(0, 0, 0),
                    junk |-> Entry(0, 0, 0),
                    indet |-> {"table_is_full", "str_len", "entry", "junk"}]
         /\ pos' = first.pos
         /\ hist' = [hist EXCEPT !.h = im.h, !.zero_len = first.zero_len,
                                  !.wild = first.key >= Pow2(im.K) + 2,
                                  !.img_at = hist.sep_at]
    /\ pc' = "lzw"
    /\ UNCHANGED <<file, handle, result, frame, sep, size, layout>>

\* read_image where the shift of line 277 is undefined (the code size byte is
\* above 30), or where new_table's malloc fails and line 289 or 221 uses the
\* null table
read_image_undefined ==
    /\ pc = "dispatch" /\ sep = 44
    /\ \E g \in (IF ImageUsesUninit(pos) THEN UninitBytes ELSE {0}) :
         LET im == ImageStart(pos, g) IN
         hist' = [hist EXCEPT !.h = im.h, !.img_at = hist.sep_at,
                              !.fault = IF im.K > 30 THEN "shift" ELSE "null table"]
    /\ pc' = "undefined"
    /\ UNCHANGED <<file, pos, handle, result, gif, frame, sep, size, lzw, table,
                   layout>>

\* gd_get_frame returns r from inside read_image_data at offset p
ReturnFromImage(r, p) ==
    /\ result' = r
    /\ pos' = p
    /\ pc' = "idle"
    /\ lzw' = NoLzw
    /\ table' = NoTable

\* the values table_is_full may hold at line 291
Fulls ==
    IF lzw.key = lzw.clear THEN {0}
    ELSE IF "table_is_full" \in lzw.indet THEN {0, 1}
    ELSE {lzw.table_is_full}

\* the values str_len and entry.suffix may hold at line 292 when nothing has
\* been assigned to them
Garbage(full) ==
    IF lzw.key # lzw.clear /\ full = 0
       /\ {"str_len", "entry"} \cap lzw.indet # {}
    THEN UninitBytes ELSE {0}

\* line 297 were no number of entries to make the table full
NeverFull(n) == FALSE

\* line 297: the table has n entries and is full
IsFull(n) == n = TableCap

\* Lines 287 to 301, realloc (if called) succeeding: the CLEAR code resets
\* the table, any other code adds an entry unless the table is full.  The
\* locals and the table after them, l and t being the locals and the table
\* before them, and the index of the entry added (-1: none).
UpdateOf(l, t, full, g) ==
    IF l.key = l.clear
    THEN [lzw   |-> [l EXCEPT !.key_size = l.init_key_size,
                              !.table_is_full = 0,
                              !.indet = @ \ {"table_is_full"}],
          table |-> [t EXCEPT !.nentries = Pow2(l.init_key_size - 1) + 2],
          added |-> -1]
    ELSE IF full # 0
    THEN [lzw   |-> [l EXCEPT !.table_is_full = full,
                              !.indet = @ \ {"table_is_full"}],
          table |-> t,
          added |-> -1]
    ELSE
      LET str_len == IF "str_len" \in l.indet THEN g ELSE l.str_len
          suf == IF "entry" \in l.indet THEN g ELSE suffix(l.entry)
          r == add_entry(t, str_len + 1, l.key, suf)
          now_full == IsFull(r.table.nentries)
      IN  [lzw   |-> [l EXCEPT
                        !.table_is_full = IF now_full THEN 1 ELSE 0,
                        !.ret = IF now_full THEN 0 ELSE r.ret,
                        !.str_len = str_len,
                        !.entry = [@ EXCEPT ![3] = suf],
                        !.indet = @ \ {"table_is_full", "str_len", "entry"}],
           table |-> r.table,
           added |-> t.nentries]

\* lines 287 to 301 in the current state
Update(full, g) == UpdateOf(lzw, table, full, g)

\* line 302 at offset p: the key read with the key size the locals l hold
ReadKeyAt(p, l) == get_key(p, l.key_size, l.sub_len, l.shift, l.byte)

\* line 302 in the current state
ReadKey(l) == ReadKeyAt(pos, l)

\* lines 302 to 305 after the update u, k being the key read: the key size
\* grows if add_entry returned 1 and the key is neither CLEAR nor STOP
Read(u, k) ==
    [lzw      |-> [u.lzw EXCEPT
                     !.key = k.key, !.sub_len = k.sub_len,
                     !.shift = k.shift, !.byte = k.byte,
                     !.key_size = IF k.key # u.lzw.clear /\ k.key # u.lzw.stop
                                     /\ u.lzw.ret = 1
                                  THEN @ + 1 ELSE @],
     table    |-> u.table,
     added    |-> u.added,
     prev     |-> u.lzw.key,
     pos      |-> k.pos,
     zero_len |-> k.zero_len]

\* lines 302 to 305 after the update u
ReadAfter(u) == Read(u, ReadKey(u.lzw))

\* lines 287 to 305
Pass(full, g) == ReadAfter(Update(full, g))

\* lines 292 to 296: add_entry's realloc fails, and gd_get_frame returns -1
lzw_nomem ==
    /\ pc = "lzw"
    /\ lzw.key # lzw.clear
    /\ 0 \in Fulls
    /\ table.nentries = table.bulk
    /\ ReturnFromImage(-1, pos)
    /\ hist' = [hist EXCEPT !.fault = "nomem"]
    /\ UNCHANGED <<file, handle, gif, frame, sep, size, layout>>

\* line 303: the key read in pass r is the CLEAR code
Continue(r) ==
    /\ r.lzw.key = lzw.clear
    /\ lzw' = r.lzw
    /\ table' = r.table
    /\ pos' = r.pos
    /\ hist' = [hist EXCEPT !.zero_len = @ \/ r.zero_len, !.wr = {}, !.at = {},
                             !.added = r.added, !.prev = r.prev]

\* a pass of the loop of line 286 in which the key read is the CLEAR code:
\* lines 287 to 303
lzw_clear ==
    /\ pc = "lzw"
    /\ \E full \in Fulls : \E g \in Garbage(full) : Continue(Pass(full, g))
    /\ UNCHANGED <<file, pc, handle, result, gif, frame, sep, size, layout>>

\* line 304: the key read in pass r is the STOP code; lines 320 to 322
Break(r) ==
    /\ r.lzw.key = lzw.stop /\ r.lzw.key # lzw.clear
    /\ ReturnFromImage(1, AfterRead(r.pos, 1))
    /\ hist' = [hist EXCEPT !.zero_len = @ \/ r.zero_len, !.wr = {}, !.at = {},
                             !.added = r.added, !.prev = r.prev]

\* the pass in which the key read is the STOP code: lines 287 to 304, then
\* lines 320 to 322, and gd_get_frame returns 1
lzw_stop ==
    /\ pc = "lzw"
    /\ \E full \in Fulls : \E g \in Garbage(full) : Break(Pass(full, g))
    /\ UNCHANGED <<file, handle, gif, frame, sep, size, layout>>

\* Lines 316 to 318 after the loop of line 308 has run as em says for the key
\* of pass r, first being the key's entry: the locals and the table, the
\* history, and where the call is.  "spin": the loop of line 308 never ends.
Patch(r, em, first, junk) ==
    LET l == [r.lzw EXCEPT
                !.junk  = IF em.used_junk THEN junk ELSE @,
                !.indet = IF em.used_junk THEN @ \ {"junk"} ELSE @]
        h == [hist EXCEPT !.zero_len = @ \/ r.zero_len, !.wr = em.wr,
                          !.at = em.at, !.added = r.added, !.prev = r.prev,
                          !.wild = @ \/ r.lzw.key >= r.table.nentries]
    IN  CASE em.status = "ok" ->
               [lzw   |-> [l EXCEPT !.entry = em.leaf,
                                    !.str_len = length(first),
                                    !.frm_off = @ + length(first),
                                    !.indet = @ \ {"str_len", "entry"}],
                table |-> IF r.lzw.key < r.table.nentries - 1
                             /\ r.lzw.table_is_full = 0
                          THEN [r.table EXCEPT
                                  !.entries[r.table.nentries][3] = suffix(em.leaf)]
                          ELSE r.table,
                hist  |-> [h EXCEPT !.npix = r.lzw.frm_off + length(first)],
                pc    |-> "lzw"]
          [] em.status = "cycle" ->
               [lzw |-> l, table |-> r.table, hist |-> h, pc |-> "spin"]
          [] OTHER ->
               [lzw |-> l, table |-> r.table,
                hist |-> [h EXCEPT !.fault = em.status], pc |-> "undefined"]

\* lines 306 to 318 for the key of pass r
Write(r, junk) ==
    Patch(r, Emit(junk, r.lzw, r.table),
          EntryAt(r.table, r.lzw.key, r.lzw.clear, junk), junk)

\* lines 306 to 318: what they leave, o, and the raster
Written306(o, em) ==
    /\ lzw' = o.lzw
    /\ table' = o.table
    /\ hist' = o.hist
    /\ pc' = o.pc
    /\ frame' = em.frame

\* the key read in pass r is neither CLEAR nor STOP
Data(r, junk) ==
    /\ r.lzw.key # lzw.clear /\ r.lzw.key # lzw.stop
    /\ pos' = r.pos
    /\ Written306(Write(r, junk), Emit(junk, r.lzw, r.table))

\* A pass in which the key read is any other code: lines 287 to 318, the
\* string of the key is written and the last entry patched.  When the
\* prefixes of the key's entry lead round in a circle the loop of line 308
\* never ends.  When w is 0 or the write is outside the raster the behaviour
\* is undefined.
lzw_emit ==
    /\ pc = "lzw"
    /\ \E full \in Fulls : \E g \in Garbage(full) :
       \E junk \in (IF "junk" \in lzw.indet THEN UninitEntries ELSE {lzw.junk}) :
          Data(Pass(full, g), junk)
    /\ UNCHANGED <<file, handle, result, gif, sep, size, layout>>

\* how many passes of the loop of line 286 one step may take together
RunLen == 256

\* lines 287 to 305 at offset p after the update u
PassAt(p, u) == Read(u, ReadKeyAt(p, u.lzw))

\* lines 287 to 305 in st, a record of the variables the loop changes
PassOf(st) ==
    PassAt(st.pos, UpdateOf(st.lzw, st.table, st.lzw.table_is_full, 0))

\* st after one more pass, r being its lines 287 to 305, em its lines 306
\* to 315 and o what lines 316 to 318 leave
RunNext(st, r, em, o) ==
    [lzw |-> o.lzw, table |-> o.table, hist |-> o.hist, pos |-> r.pos,
     frame |-> em.frame, n |-> st.n + 1, done |-> r.added = TableCap - 1]

\* One pass from st on if it is a pass in which nothing uninitialised is
\* used, the key read is neither CLEAR nor STOP and is below nentries, no
\* length byte is 0 and the loop of line 308 ends at a literal inside the
\* raster; st with done set if it is not.
RunEmit(st, r, em) ==
    IF em.status # "ok" \/ em.used_junk
    THEN [st EXCEPT !.done = TRUE]
    ELSE RunNext(st, r, em, Patch(r, em, Slot(r.table, r.lzw.key), st.lzw.junk))
RunStep(st, r) ==
    IF \/ r.lzw.key = r.lzw.clear \/ r.lzw.key = r.lzw.stop
       \/ r.lzw.key >= r.table.nentries \/ r.zero_len
    THEN [st EXCEPT !.done = TRUE]
    ELSE RunEmit(st, r, EmitOn(st.frame, st.lzw.junk, r.lzw, r.table))
OnePass(st) ==
    IF st.lzw.key # st.lzw.clear /\ ~(st.lzw.indet \subseteq {"junk"})
    THEN [st EXCEPT !.done = TRUE]
    ELSE RunStep(st, PassOf(st))

\* at most n such passes from st on, ending before the first pass that is
\* not of this kind or with the pass that fills the table
RECURSIVE RunLoop(_, _)
RunLoop(st, n) ==
    IF st.done \/ n = 0 THEN st
    ELSE IF n = 1 THEN OnePass(st)
    ELSE RunLoop(RunLoop(st, n \div 2), n - (n \div 2))

\* the variables after the run that ends in out, a run of two passes or more
RunTo(out) ==
    /\ out.n >= 2
    /\ lzw' = out.lzw
    /\ table' = out.table
    /\ hist' = out.hist
    /\ pos' = out.pos
    /\ frame' = out.frame

\* Up to RunLen passes of the loop of line 286 as one step.  Every state it
\* leads to is also reached pass by pass, by lzw_clear and lzw_emit; the step
\* is taken only where the number of entries added since the table was reset
\* is a multiple of RunLen.
lzw_run ==
    /\ pc = "lzw"
    /\ table.nentries >= lzw.clear + 2
    /\ (table.nentries - lzw.clear - 2) % RunLen = 0
    /\ RunTo(RunLoop([lzw |-> lzw, table |-> table, hist |-> hist, pos |-> pos,
                      frame |-> frame, n |-> 0, done |-> FALSE], RunLen))
    /\ UNCHANGED <<file, pc, handle, result, gif, sep, size, layout>>

-----------------------------------------------------------------------------
(* The files the runs start from *)

\* the logical screen of the files
ScreenW == 4
ScreenH == 2
\* the minimum code size of the short code streams
ShortK == 2

\* a header: "GIF89a" (or another signature), width, height, the packed byte,
\* background index, aspect ratio, and the global palette the packed byte
\* announces
HeaderBytes(sig, W, H, fdsz) ==
    sig \o LE16(W) \o LE16(H) \o <<fdsz, 0, 0>>
        \o [i \in 1..(3 * Pow2((fdsz % 8) + 1)) |-> (i * 37) % 256]

GIF89a == <<71, 73, 70, 56, 57, 97>>
GoodHeader == HeaderBytes(GIF89a, ScreenW, ScreenH, 240)

\* what a block of the file is: its kind, its bytes, and what it was written
\* from
Block(kind, bytes) ==
    [kind |-> kind, bytes |-> bytes,
     gce |-> NoGif.gce, loop |-> 0,
     K |-> 0, vals |-> <<>>, first |-> -1, rect |-> <<0, 0, 0, 0>>,
     interlace |-> FALSE,
     data_end |-> 0]

GceBlock(disposal, input, transparency, delay, tindex) ==
    [Block("gce", <<33, 249, 4, 4 * disposal + 2 * input + transparency>>
                  \o LE16(delay) \o <<tindex, 0>>)
     EXCEPT !.gce = [disposal |-> disposal, input |-> 2 * input,
                     transparency |-> transparency, delay |-> delay,
                     tindex |-> tindex]]

CommentBlock(data, n) == Block("comment", <<33, 254>> \o Chain(data, n))

PlainTextBlock(data, n) ==
    Block("plaintext", <<33, 1, 12>> \o [i \in 1..12 |-> i] \o Chain(data, n))

NetscapeBlock(loop) ==
    [Block("netscape", <<33, 255, 11>>
                       \o <<78, 69, 84, 83, 67, 65, 80, 69, 50, 46, 48, 3, 1>>
                       \o LE16(loop) \o <<0>>)
     EXCEPT !.loop = loop]

AppBlock(data, n) ==
    Block("app", <<33, 255, 11>> \o <<88, 77, 80, 32, 68, 97, 116, 97, 88, 77, 80>>
                 \o Chain(data, n))

UnknownBlock(label, data, n) == Block("unknown", <<33, label>> \o Chain(data, n))

TrailerBlock == Block("trailer", <<59>>)

BadBlock(b) == Block("bad", <<b>>)

\* an image: the descriptor, the code size K, and data (the packed codes, then
\* tail, bytes the writer left after them) in sub-blocks of n bytes
ImageBlock(rect, fisrz, K, codes, tail, n) ==
    [Block("image", <<44>> \o LE16(rect[1]) \o LE16(rect[2]) \o LE16(rect[3])
                    \o LE16(rect[4]) \o <<fisrz>>
                    \o (IF fisrz >= 128
                        THEN [i \in 1..(3 * Pow2((fisrz % 8) + 1)) |-> (i * 11) % 256]
                        ELSE <<>>)
                    \o <<K>> \o Chain(Pack(codes) \o tail, n))
     EXCEPT !.K = K, !.vals = [i \in 1..Len(codes) |-> codes[i][1]],
            !.first = IF codes = <<>> THEN -1 ELSE codes[1][1],
            !.rect = rect, !.interlace = (fisrz \div 64) % 2 = 1,
            !.data_end = Len(Pack(codes))]

\* the bytes of a list of blocks
RECURSIVE Flatten(_)
Flatten(bl) == IF bl = <<>> THEN <<>> ELSE Head(bl).bytes \o Flatten(Tail(bl))

\* the blocks with the offsets they lie at in a file whose header has n bytes
RECURSIVE Place(_, _)
Place(bl, n) ==
    IF bl = <<>> THEN <<>>
    ELSE <<[b |-> [Head(bl) EXCEPT !.bytes = <<>>], start |-> n,
            end |-> n + Len(Head(bl).bytes)]>>
         \o Place(Tail(bl), n + Len(Head(bl).bytes))

\* the first n bytes of f
Prefix(f, n) == SubSeq(f, 1, n)

\* all sequences of at most n elements of S
RECURSIVE SeqsUpTo(_, _)
SeqsUpTo(S, n) ==
    IF n = 0 THEN {<<>>}
    ELSE LET shorter == SeqsUpTo(S, n - 1)
         IN  shorter \cup {Append(q, e) : q \in {t \in shorter : Len(t) = n - 1},
                                           e \in S}

\* the code values of the short streams: two literals, CLEAR, and the first
\* two codes above STOP
ShortAlphabet == {0, 1, Pow2(ShortK), Pow2(ShortK) + 2, Pow2(ShortK) + 3}

\* the short code streams: CLEAR, at most MaxCodes codes, STOP
ShortStreams ==
    {<<Pow2(ShortK)>> \o body \o <<Pow2(ShortK) + 1>> :
        body \in SeqsUpTo(ShortAlphabet, MaxCodes)}

FullRect == <<0, 0, ScreenW, ScreenH>>

\* a file: a header and blocks, cut after cut bytes (-1: whole)
Input(header, bl, cut) ==
    [bytes  |-> IF cut < 0 THEN header \o Flatten(bl)
                ELSE Prefix(header \o Flatten(bl), cut),
     layout |-> Place(bl, Len(header))]

\* a well-formed image of the short streams
ShortImage(vals) ==
    ImageBlock(FullRect, 0, ShortK, Written(ShortK, vals), <<>>, 255)

\* one image, every short stream, and the trailer
ImageFiles ==
    {Input(GoodHeader, <<ShortImage(v), TrailerBlock>>, -1) : v \in ShortStreams}

\* CLEAR 0 1 STOP
Stream01 == <<Pow2(ShortK), 0, 1, Pow2(ShortK) + 1>>

\* the blocks the files of several blocks are made of
Menu ==
    {GceBlock(1, 0, 1, 10, 1), GceBlock(2, 1, 0, 300, 0),
     CommentBlock(<<104, 105, 33>>, 2), PlainTextBlock(<<104>>, 255),
     NetscapeBlock(513), AppBlock(<<1, 2>>, 255),
     UnknownBlock(171, <<>>, 255), UnknownBlock(171, <<7>>, 255),
     ShortImage(Stream01),
     ImageBlock(<<1, 0, 2, 1>>, 128, ShortK, Written(ShortK, Stream01), <<>>, 1),
     ImageBlock(FullRect, 64, ShortK, Written(ShortK, Stream01), <<44>>, 255),
     TrailerBlock, BadBlock(0)}

BlockFiles == {Input(GoodHeader, bl, -1) : bl \in SeqsUpTo(Menu, MaxBlocks)}

\* A stream that has the decoder read CLEAR 0 0 CLEAR and then n codes 0 and
\* STOP: the codes up to the second CLEAR and the one after it with the
\* writer's widths, the later ones with one bit more
LongCodes(K, n) ==
    [i \in 1..(n + 5) |->
        IF i = 1 \/ i = 4 THEN <<Pow2(K), K + 1>>
        ELSE IF i <= 5 THEN <<0, K + 1>>
        ELSE <<IF i = n + 5 THEN Pow2(K) + 1 ELSE 0, WriterWidth(K, i - 4) + 1>>]

\* how many codes 0 the long stream holds after its second CLEAR
LongN == 2044
\* the screen of the long file
LongW == 64
LongH == 32

\* the long file; its layout does not repeat the code values
LongFile ==
    Input(HeaderBytes(GIF89a, LongW, LongH, 240),
          <<[ImageBlock(<<0, 0, LongW, LongH>>, 0, ShortK,
                        LongCodes(ShortK, LongN), <<>>, 255)
             EXCEPT !.vals = <<>>],
            TrailerBlock>>, -1)

\* A stream of n codes 0 between CLEAR and STOP, and a file of it: long enough
\* for add_entry to call realloc.  Its layout does not repeat the code values.
MediumN == 127
MediumK == 7
MediumFile ==
    Input(HeaderBytes(GIF89a, 16, 9, 240),
          <<[ImageBlock(<<0, 0, 16, 9>>, 0, MediumK,
                        Written(MediumK, [i \in 1..(MediumN + 2) |->
                                            IF i = 1 THEN Pow2(MediumK)
                                            ELSE IF i = MediumN + 2
                                            THEN Pow2(MediumK) + 1 ELSE 0]),
                        <<>>, 255)
             EXCEPT !.vals = <<>>],
            TrailerBlock>>, -1)

\* the minimum code size of the stream that fills the table, and its screen
FullK == 8
FullW == 64
FullH == 61

\* how many codes after a CLEAR it takes to have every entry up to 0xFFF added
FullN == TableCap - Pow2(FullK) - 2

\* A stream that fills the table: CLEAR, FullN codes 0, the code 1 (read in
\* the pass that adds entry 0xFFF), the codes 0xFFF and 1 read with the table
\* full, then CLEAR 1 0 STOP; every code with the writer's width
FullCodes(K, n) ==
    [i \in 1..(n + 8) |->
        IF i = 1 THEN <<Pow2(K), K + 1>>
        ELSE IF i <= n + 1 THEN <<0, WriterWidth(K, i - 1)>>
        ELSE IF i = n + 3 THEN <<NoPrefix, 12>>
        ELSE IF i <= n + 4 THEN <<(i - n + 1) % 2, 12>>
        ELSE IF i = n + 5 THEN <<Pow2(K), 12>>
        ELSE IF i = n + 8 THEN <<Pow2(K) + 1, K + 1>>
        ELSE <<(i - n + 1) % 2, K + 1>>]

\* the file of that stream; its layout does not repeat the code values
FullFile ==
    Input(HeaderBytes(GIF89a, FullW, FullH, 240),
          <<[ImageBlock(<<0, 0, FullW, FullH>>, 0, FullK,
                        FullCodes(FullK, FullN), <<>>, 255)
             EXCEPT !.vals = <<>>],
            TrailerBlock>>, -1)

\* headers the checks of gd_open_gif turn down: another version, another
\* signature, no global palette, a colour depth other than 8
BadHeaders ==
    {HeaderBytes(<<71, 73, 70, 56, 55, 97>>, ScreenW, ScreenH, 240),
     HeaderBytes(<<74, 73, 70, 56, 57, 97>>, ScreenW, ScreenH, 240),
     HeaderBytes(GIF89a, ScreenW, ScreenH, 112),
     HeaderBytes(GIF89a, ScreenW, ScreenH, 176)}

BadHeaderFiles == {Input(h, <<TrailerBlock>>, -1) : h \in BadHeaders}

\* files that end early: every cut after the header of two lists of blocks
CutLists ==
    {<<CommentBlock(<<104, 105, 33>>, 2), ShortImage(Stream01), TrailerBlock>>,
     <<NetscapeBlock(513), GceBlock(1, 0, 1, 10, 1), PlainTextBlock(<<104>>, 255)>>}

CutFiles ==
    {Input(GoodHeader, bl, cut) :
        bl \in CutLists,
        cut \in Len(GoodHeader)..(Len(GoodHeader) + 24)}

\* images of the short streams in a rect smaller than the screen, and one in
\* a rect of width 0
SmallRect == <<1, 0, 2, 1>>
RectFiles ==
    {Input(GoodHeader,
           <<ImageBlock(SmallRect, 0, ShortK, Written(ShortK, v), <<>>, 255),
             TrailerBlock>>, -1) : v \in ShortStreams}
    \cup {Input(GoodHeader,
                <<ImageBlock(<<0, 0, 0, 1>>, 0, ShortK, Written(ShortK, Stream01),
                             <<>>, 255),
                  TrailerBlock>>, -1)}

\* streams of two runs: CLEAR a b CLEAR c d STOP
TwoRuns ==
    {<<Pow2(ShortK), a, b, Pow2(ShortK), c, d, Pow2(ShortK) + 1>> :
        a \in {0, 1}, b \in {0, 1}, c \in {0, 1}, d \in {0, 1}}

TwoRunFiles ==
    {Input(GoodHeader, <<ShortImage(v), TrailerBlock>>, -1) : v \in TwoRuns}

\* an image whose data ends without a STOP code: CLEAR 0 1
NoStopFile ==
    Input(GoodHeader,
          <<ImageBlock(FullRect, 0, ShortK,
                       Written(ShortK, <<Pow2(ShortK), 0, 1>>), <<>>, 255),
            TrailerBlock>>, -1)

\* an image whose last sub-block holds, after the STOP code, a byte 0 and
\* the first seven bytes of a graphic control extension with delay 200;
\* then an image and the trailer
TailFile ==
    Input(GoodHeader,
          <<ImageBlock(FullRect, 0, ShortK, Written(ShortK, Stream01),
                       <<0, 33, 249, 4, 0, 200, 0, 0>>, 255),
            ShortImage(Stream01), TrailerBlock>>, -1)

\* the height of the screen of the interlaced file
TallH == 3

\* an interlaced image one pixel wide and TallH high: CLEAR 0 1 0 STOP
InterlaceFile ==
    Input(HeaderBytes(GIF89a, 1, TallH, 240),
          <<ImageBlock(<<0, 0, 1, TallH>>, 64, ShortK,
                       Written(ShortK, <<Pow2(ShortK), 0, 1, 0, Pow2(ShortK) + 1>>),
                       <<>>, 255),
            TrailerBlock>>, -1)

\* an image with the minimum code size 1: CLEAR 0 1 STOP
OneBitFile ==
    Input(GoodHeader,
          <<ImageBlock(FullRect, 0, 1, Written(1, <<2, 0, 1, 3>>), <<>>, 255),
            TrailerBlock>>, -1)

\* an image whose first code is not the CLEAR code: 0 1 STOP
NoClearFile ==
    Input(GoodHeader,
          <<ImageBlock(FullRect, 0, ShortK,
                       Written(ShortK, <<0, 1, Pow2(ShortK) + 1>>), <<>>, 255),
            TrailerBlock>>, -1)

\* the files the runs of Spec start from
Inputs ==
    ImageFiles \cup BlockFiles \cup {MediumFile} \cup BadHeaderFiles
        \cup CutFiles \cup RectFiles \cup TwoRunFiles
        \cup {NoStopFile, TailFile, InterlaceFile, OneBitFile, NoClearFile}

\* the files the runs of SpecLong start from
LongInputs ==
    {LongFile, MediumFile, FullFile} \cup {Input(GoodHeader, <<b>>, -1) : b \in Menu}

InitFrom(files) ==
    /\ \E f \in files : file = f.bytes /\ layout = f.layout
    /\ pos = 0
    /\ pc = "start"
    /\ handle = "none"
    /\ result = 0
    /\ gif = NoGif
    /\ frame = <<>>
    /\ sep = 0
    /\ size = 0
    /\ lzw = NoLzw
    /\ table = NoTable
    /\ hist = NoHist

Init == InitFrom(Inputs)

InitLong == InitFrom(LongInputs)

Next ==
    \/ gd_open_gif
    \/ gd_open_gif_fail
    \/ gd_get_frame
    \/ get_frame_trailer
    \/ get_frame_bad_sep
    \/ read_plain_text_ext
    \/ read_graphic_control_ext
    \/ read_comment_ext
    \/ read_application_ext
    \/ read_ext_unknown
    \/ discard_sub_blocks
    \/ read_image
    \/ read_image_undefined
    \/ lzw_nomem
    \/ lzw_clear
    \/ lzw_stop
    \/ lzw_emit
    \/ lzw_run

Spec == Init /\ [][Next]_vars

SpecLong == InitLong /\ [][Next]_vars

-----------------------------------------------------------------------------
(* get_key on its own: calls of any widths over a chain of sub-blocks *)

\* how many data bytes the chains hold
MaxData == 3
\* the values of the data bytes
KeyBytes == {0, 165, 255}
\* the sizes of the sub-blocks
ChunkSizes == {1, 2, 255}

\* The file is a well-formed chain; sub_len and shift are 0 as line 282 leaves
\* them and byte holds what line 275 read.  The layout keeps the data bytes
\* (vals) and the size of the sub-blocks (K); hist counts the bits read.
InitKeys ==
    /\ \E data \in [1..MaxData -> KeyBytes] : \E n \in ChunkSizes :
         /\ file = Chain(data, n)
         /\ layout = <<[b |-> [Block("chain", <<>>) EXCEPT !.vals = data, !.K = n],
                        start |-> 0, end |-> Len(data)]>>
    /\ \E b \in KeyBytes :
         lzw = [live |-> TRUE, sub_len |-> 0, shift |-> 0, byte |-> b, key |-> 0,
                key_size |-> 0]
    /\ pos = 0
    /\ pc = "keys"
    /\ handle = "none"
    /\ result = 0
    /\ gif = NoGif
    /\ frame = <<>>
    /\ sep = 0
    /\ size = 0
    /\ table = NoTable
    /\ hist = [bits |-> 0]

\* what a call of get_key with key_size w that returns k leaves
KeyRead(w, k) ==
    /\ lzw' = [lzw EXCEPT !.key = k.key, !.sub_len = k.sub_len,
                          !.shift = k.shift, !.byte = k.byte, !.key_size = w]
    /\ pos' = k.pos
    /\ hist' = [bits |-> hist.bits + w]

\* a call of get_key with a key_size in 1..12 for which the chain has the bits
call_get_key ==
    /\ pc = "keys"
    /\ \E w \in 1..12 :
         /\ hist.bits + w <= 8 * Len(layout[1].b.vals)
         /\ KeyRead(w, get_key(pos, w, lzw.sub_len, lzw.shift, lzw.byte))
    /\ UNCHANGED <<file, pc, handle, result, gif, frame, sep, size, table, layout>>

SpecKeys == InitKeys /\ [][call_get_key]_vars

-----------------------------------------------------------------------------
(* What the files were written from, for the properties to compare with *)

\* A reference LZW decoder over code values, from vals[i] on.  st holds the
\* strings added since the last CLEAR (the n-th is the string of the previous
\* code and the first character of the string of the current one), the
\* string of the previous code, the indices put out, whether every code so
\* far named a string, and where the STOP code was met (0: not yet).
RECURSIVE RefLoop(_, _, _, _)
RefLoop(K, vals, i, st) ==
    IF i > Len(vals) \/ ~st.ok \/ st.stop_at # 0 THEN st
    ELSE
      LET c == vals[i]
          first == Pow2(K) + 2
          known == c < Pow2(K) \/ (c >= first /\ c - first < Len(st.tab))
          next  == c = first + Len(st.tab) /\ st.prev # <<>> /\ c < TableCap
          str   == IF c < Pow2(K) THEN <<c>>
                   ELSE IF known THEN st.tab[c - first + 1]
                   ELSE Append(st.prev, st.prev[1])
      IN  IF c = Pow2(K)
          THEN RefLoop(K, vals, i + 1, [st EXCEPT !.tab = <<>>, !.prev = <<>>])
          ELSE IF c = Pow2(K) + 1
          THEN [st EXCEPT !.stop_at = i]
          ELSE IF ~(known \/ next)
          THEN [st EXCEPT !.ok = FALSE]
          ELSE RefLoop(K, vals, i + 1,
                       [st EXCEPT
                          !.out = @ \o str,
                          !.prev = str,
                          !.tab = IF st.prev # <<>> /\ first + Len(@) < TableCap
                                  THEN Append(@, Append(st.prev, str[1]))
                                  ELSE @])

RefRun(K, vals) ==
    RefLoop(K, vals, 1, [tab |-> <<>>, prev |-> <<>>, out |-> <<>>, ok |-> TRUE,
                         stop_at |-> 0])

\* the indices the code values stand for
RefDecode(K, vals) == RefRun(K, vals).out

\* a stream a conforming encoder may produce: CLEAR first, STOP last and
\* nowhere else, and every other code naming a string that exists when it is
\* sent
Conforming(K, vals) ==
    /\ Len(vals) >= 2
    /\ vals[1] = Pow2(K)
    /\ RefRun(K, vals).ok
    /\ RefRun(K, vals).stop_at = Len(vals)

\* the file holds every block of its layout in full
WholeFile == layout # <<>> /\ Len(file) = layout[Len(layout)].end

\* the blocks of the layout that are the image the current call decodes
ImageOfCall ==
    {i \in DOMAIN layout : /\ layout[i].b.kind = "image"
                           /\ layout[i].start = hist.img_at
                           /\ layout[i].end <= Len(file)}

\* the kinds of block that are extensions
ExtKinds == {"gce", "comment", "plaintext", "netscape", "app", "unknown"}

\* the blocks from block i on that are not extensions
NonExtFrom(i) ==
    {j \in DOMAIN layout : j >= i /\ layout[j].b.kind \notin ExtKinds}

\* the least element of a non-empty set of numbers
Least(S) == CHOOSE j \in S : \A k \in S : j <= k

\* the fields of the last graphic control extension before block i
LastGce(i) ==
    LET G == {j \in DOMAIN layout : j < i /\ layout[j].b.kind = "gce"}
    IN  IF G = {} THEN NoGif.gce
        ELSE layout[CHOOSE j \in G : \A k \in G : k <= j].b.gce

\* the call was stopped from outside the stream: no memory for the table
EnvFault == hist.fault \in {"nomem", "null table"}

\* a gd_get_frame call has returned
Returned == pc = "idle" /\ hist.calls > 0

-----------------------------------------------------------------------------
(* The properties *)

\* C1: round trip.  While and after an image whose stream a conforming
\* encoder produced (K in 2..8) is decoded into a rect that lies in the
\* screen and holds its pixels, the pixels written so far are the first
\* pixels of the original sequence, at linear offsets 0, 1, 2, ... of the
\* rect; the decoding does not leave defined behaviour or stop returning;
\* and when the call has returned it has returned 1 with every pixel written.
C1_RoundTrip ==
    \A i \in ImageOfCall :
      LET b == layout[i].b
          ref == RefDecode(b.K, b.vals)
      IN  (/\ b.K \in 2..8
           /\ Conforming(b.K, b.vals)
           /\ b.rect[3] > 0
           /\ b.rect[1] + b.rect[3] <= gif.width
           /\ b.rect[2] + b.rect[4] <= gif.height
           /\ Len(ref) <= b.rect[3] * b.rect[4]
           /\ ~EnvFault)
          => /\ pc \notin {"undefined", "spin"}
             /\ hist.npix <= Len(ref)
             /\ \A p \in 0..(hist.npix - 1) :
                  frame[FrameIndex(b.rect[1], b.rect[2], b.rect[3], p) + 1]
                    = ref[p + 1]
             /\ pc = "idle" => (result = 1 /\ hist.npix = Len(ref))

\* C2: pixel-write bounds.  Every linear offset a pass of read_image_data
\* writes lies below w * h of the image descriptor, and no write is outside
\* the raster.
C2_WritesInRect ==
    lzw.live => /\ \A p \in hist.wr : p < lzw.w * hist.h
                /\ hist.fault # "oob"

\* C3: code-width range.  For K in 1..8, key_size stays between init_key_size
\* and 12 throughout read_image_data.
C3_KeySizeRange ==
    (lzw.live /\ lzw.init_key_size \in 2..9)
        => (lzw.init_key_size <= lzw.key_size /\ lzw.key_size <= 12)

\* the header of the file fails one of the three checks
BadHeader ==
    /\ Len(file) >= 11
    /\ \/ SubSeq(file, 1, 6) # GIF89a
       \/ file[11] < 128
       \/ (file[11] \div 16) % 8 # 7

\* C4: open fails cleanly.  Once gd_open_gif has returned, it has returned
\* NULL if the header fails a check, and a decoder only if it passes all.
C4_OpenFailsCleanly ==
    (pc # "start" /\ Len(file) >= 11)
        => /\ BadHeader => handle = "NULL"
           /\ handle = "gif" => ~BadHeader

\* C5: block dispatch result.  A call that starts at a block of a file that
\* holds its blocks in full, followed by a block that is no extension,
\* returns (unless memory runs out) 0 right after the trailer if that block
\* is the trailer, 1 if it is an image, -1 if it is neither.
C5_DispatchResult ==
    \A i \in DOMAIN layout :
      (/\ Returned /\ ~EnvFault /\ WholeFile
       /\ layout[i].start = hist.call_pos
       /\ NonExtFrom(i) # {})
      => LET j == Least(NonExtFrom(i))
             kind == layout[j].b.kind
         IN  /\ kind = "trailer" => (result = 0 /\ pos = layout[j].end)
             /\ kind = "image" => result = 1
             /\ kind = "bad" => result = -1

\* C6: frame metadata binding.  After a call has returned 1 for the image of
\* a file that holds its blocks in full, gif->gce holds the fields of the
\* last graphic control extension before that image, or zeros if there is
\* none before it.
C6_GceBinding ==
    \A i \in ImageOfCall :
      (Returned /\ result = 1 /\ WholeFile) => gif.gce = LastGce(i)

\* C7: resynchronisation.  After a call has returned 1 for an image whose
\* data is a well-formed chain holding a conforming stream, the next byte to
\* be read is the first byte after the image's block.
C7_Resync ==
    \A i \in ImageOfCall :
      (/\ Returned /\ result = 1
       /\ Conforming(layout[i].b.K, layout[i].b.vals))
      => pos = layout[i].end

\* C8: a zero length byte inside LZW data.  Once get_key has read a length
\* byte of 0, the call has returned -1.
C8_ZeroLengthIsError ==
    hist.zero_len => (pc = "idle" /\ result = -1)

\* C9: an out-of-range code.  No pass of read_image_data writes the string
\* of a key that is not below nentries.
C9_CodeInRange ==
    (lzw.live /\ hist.wr # {}) => lzw.key < table.nentries

\* C10: termination.  No call is ever in a loop that never ends: the loop of
\* discard_sub_blocks once the source has ended, or the loop of line 308
\* following prefixes round in a circle.
C10_CallReturns == pc # "spin"

\* the rows start, start + step, ... below h, in order
RECURSIVE PassRows(_, _, _)
PassRows(start, step, h) ==
    IF start >= h THEN <<>> ELSE <<start>> \o PassRows(start + step, step, h)

\* the rows of an interlaced image of h rows in the order its data holds them
InterlaceRows(h) ==
    PassRows(0, 8, h) \o PassRows(4, 8, h) \o PassRows(2, 4, h) \o PassRows(1, 2, h)

\* C11: interlaced placement.  While an image of the file is decoded, each
\* pixel with a linear index p below w * h is written at column x + p % w of
\* the raster row y + row(p / w), where row follows the four passes when bit
\* 6 of the packed byte is set and is p / w itself when it is clear.
C11_InterlacedPlacement ==
    \A i \in ImageOfCall :
      LET b == layout[i].b
          x == b.rect[1]
          y == b.rect[2]
          w == b.rect[3]
          h == b.rect[4]
      IN  (lzw.live /\ w > 0)
          => \A pr \in hist.at :
               pr[1] < w * h
               => pr[2] = (y + (IF b.interlace
                                THEN InterlaceRows(h)[(pr[1] \div w) + 1]
                                ELSE pr[1] \div w)) * gif.width
                          + x + (pr[1] % w)

\* block i of the layout is an extension that lies in the file in full, its
\* introducer is the separator last read and the stream is at its label
AtLabelOf(i) ==
    /\ pc = "dispatch" /\ sep = 33
    /\ layout[i].start = hist.sep_at
    /\ layout[i].end <= Len(file)
    /\ pos = layout[i].start + 1

\* the sub-blocks of block i of the layout, an application extension whose
\* introducer is the separator last read, are being skipped
SkippingApp(i) ==
    /\ pc = "discard"
    /\ layout[i].b.kind = "app"
    /\ layout[i].start = hist.sep_at
    /\ layout[i].end <= Len(file)
    /\ pos \in (layout[i].start + 14)..(layout[i].end - 1)

\* what C12 says of one step
NetscapeStep ==
    \A i \in DOMAIN layout :
      /\ (AtLabelOf(i) /\ layout[i].b.kind = "netscape" /\ read_application_ext)
         => /\ gif'.loop_count = layout[i].b.loop
            /\ pc' = "dispatch"
            /\ pos' = AfterRead(layout[i].end, 1)
            /\ sep' = Read1(layout[i].end, sep)
      /\ (AtLabelOf(i) /\ layout[i].b.kind = "app" /\ read_application_ext)
         => /\ gif'.loop_count = gif.loop_count
            /\ pc' = "discard"
            /\ pos' = layout[i].start + 14
      /\ (SkippingApp(i) /\ discard_sub_blocks)
         => /\ gif'.loop_count = gif.loop_count
            /\ \/ SkippingApp(i)' /\ pos' > pos
               \/ /\ pc' = "dispatch"
                  /\ pos' = AfterRead(layout[i].end, 1)
                  /\ sep' = Read1(layout[i].end, sep)

\* C12: the Netscape loop count.  The step that reads an Application
\* extension with the identifier "NETSCAPE" stores the 16-bit little-endian
\* value after the 3, 1 prefix in loop_count and leaves the stream right
\* after the sub-block's terminator (the next separator is read there); with
\* another identifier loop_count stays as it is and the steps of
\* discard_sub_blocks move through the chain until the next separator is
\* read right after its terminator.
C12_NetscapeLoopCount == [][NetscapeStep]_vars

\* a loop count has been stored from a Netscape block and the chain of the
\* application extension after it is being skipped with the count kept
C12_Witness ==
    \E i \in DOMAIN layout :
      /\ SkippingApp(i)
      /\ i > 1
      /\ layout[i - 1].b.kind = "netscape"
      /\ layout[i - 1].b.loop # 0
      /\ gif.loop_count = layout[i - 1].b.loop

\* the stream is at a label that read_ext has no reader for
AtUnknownLabel ==
    /\ pc = "dispatch" /\ sep = 33
    /\ pos < Len(file)
    /\ file[pos + 1] \notin {1, 249, 254, 255}

\* what C13 says of the step taken at such a label
UnknownStep ==
    AtUnknownLabel
    => /\ gif' = gif
       /\ frame' = frame
       /\ pc' = "dispatch"
       /\ sep' = Read1(pos + 1, sep)
       /\ pos' = AfterRead(pos + 1, 1)

\* C13: an unknown extension label.  When the label after '!' is not 0x01,
\* 0xF9, 0xFE or 0xFF, the step consumes the label and nothing of the
\* sub-blocks, leaves the gif structure (gce, loop_count, the palettes) and
\* the raster as they are, and the byte right after the label is read as the
\* next block separator.
C13_UnknownLabel == [][UnknownStep]_vars

\* the byte after the label of an unknown extension that has a sub-block, the
\* sub-block's length, has been read as a separator
C13_Witness ==
    \E i \in DOMAIN layout :
      /\ layout[i].b.kind = "unknown"
      /\ layout[i].end > layout[i].start + 3
      /\ pc = "dispatch"
      /\ hist.sep_at = layout[i].start + 2
      /\ pos = layout[i].start + 3
      /\ sep = file[layout[i].start + 3]

\* the w with 2^(w-1) < n <= 2^w, for n in 2..0x1000
TightWidth(n) == CHOOSE w \in 1..12 : Pow2(w - 1) < n /\ n <= Pow2(w)

\* the image being decoded is block i of the layout, with K in 1..8 and a
\* code sequence that starts with CLEAR, and the call is at the top of the
\* loop of line 286 with nothing undefined behind it
DecodingFromClear(i) ==
    /\ i \in ImageOfCall
    /\ pc = "lzw" /\ lzw.live
    /\ layout[i].b.K \in 1..8
    /\ layout[i].b.first = Pow2(layout[i].b.K)
    /\ hist.fault = "none"

\* C14: the code width tracks the table size.  For K in 1..8 and a code
\* sequence starting with CLEAR, the width the next get_key call of line 302
\* uses is min(12, the w with 2^(w-1) < nentries <= 2^w) for the nentries the
\* table has at that call.
C14_WidthTracksTable ==
    \A i \in DOMAIN layout :
      DecodingFromClear(i)
      => \A full \in Fulls : \A g \in Garbage(full) :
           (lzw.key = lzw.clear \/ full # 0 \/ table.nentries < table.bulk)
           => Update(full, g).lzw.key_size
                = MIN(12, TightWidth(Update(full, g).table.nentries))

\* C15: the speculative add is always patched.  After a pass that has added
\* an entry and written the string of the code read right after the addition,
\* a code that names an entry of the table other than the one just added, the
\* suffix of the added entry is the first character of the string just
\* written; so for every index up to 0xFFF.
C15_AddIsPatched ==
    (/\ pc = "lzw" /\ lzw.live
     /\ hist.fault = "none"
     /\ hist.added >= 0
     /\ hist.wr # {}
     /\ lzw.key < table.nentries
     /\ lzw.key # hist.added)
    => suffix(Slot(table, hist.added)) = suffix(lzw.entry)

\* what C16 says of one pass of the loop of line 286
FreezeStep ==
    \A i \in DOMAIN layout :
      (DecodingFromClear(i) /\ (lzw_clear \/ lzw_emit))
      => /\ table'.nentries <= TableCap
         /\ (table.nentries = TableCap /\ lzw.key # lzw.clear)
            => /\ table'.nentries = TableCap
               /\ table'.entries = table.entries
               /\ hist'.added = -1
         /\ lzw.key = lzw.clear
            => /\ table'.nentries = Pow2(layout[i].b.K) + 2
               /\ lzw'.table_is_full = 0
         /\ (lzw.key # lzw.clear /\ table.nentries < TableCap)
            => /\ table'.nentries = table.nentries + 1
               /\ hist'.added = table.nentries

\* C16: the table's cap and freeze.  For K in 1..8 and a code sequence that
\* starts with CLEAR, no pass leaves more than 0x1000 entries; a pass that
\* starts with 0x1000 entries and a code other than CLEAR adds nothing and
\* leaves the table as it is; a pass that starts with the CLEAR code leaves
\* 2^K + 2 entries and additions enabled, and a pass that starts with fewer
\* than 0x1000 entries and a code other than CLEAR adds one.
C16_CapAndFreeze == [][FreezeStep]_vars

\* the table has been full, further codes have been written without an
\* addition, a CLEAR has reset the table and an entry has been added again
C16_Witness ==
    \E i \in DOMAIN layout :
      /\ DecodingFromClear(i)
      /\ lzw.frm_off > TableCap
           - Pow2(layout[i].b.K) - 2 + 3
      /\ table.nentries = Pow2(layout[i].b.K) + 3
      /\ hist.added = Pow2(layout[i].b.K) + 2
      /\ Len(table.entries) = TableCap

\* the call is at the top of the loop of line 286, decoding an image that
\* lies in the file in full and has K in 1..8, it has read nothing beyond
\* the image's data, and nothing undefined lies behind it
InData ==
    \E i \in ImageOfCall :
      /\ pc = "lzw" /\ lzw.live
      /\ layout[i].b.K \in 1..8
      /\ pos <= layout[i].end
      /\ hist.fault = "none"

\* entry i of the table is as C17 has the added entries
WellFormed(i) ==
    /\ prefix(Slot(table, i)) < i
    /\ prefix(Slot(table, i)) # lzw.clear
    /\ prefix(Slot(table, i)) # lzw.stop
    /\ length(Slot(table, i)) = length(Slot(table, prefix(Slot(table, i)))) + 1

\* C17: the table is well formed.  While a stream is decoded in which every
\* code read so far names an entry of the table, the entries 0 .. 2^K - 1 are
\* the literals {1, 0xFFF, index} and every entry i with 2^K + 2 <= i <
\* nentries has a prefix below i that is neither CLEAR nor STOP and a length
\* one above the length of its prefix's entry.
C17_TableWellFormed ==
    (InData /\ ~hist.wild)
    => /\ \A i \in 0..(lzw.clear - 1) : Slot(table, i) = Entry(1, NoPrefix, i)
       /\ \A i \in (lzw.clear + 2)..(table.nentries - 1) : WellFormed(i)

\* bit n (from 0) of the data bytes, the least significant bit of a byte first
DataBit(data, n) == (data[(n \div 8) + 1] \div Pow2(n % 8)) % 2

\* the number whose w bits, least significant first, are the bits from bit
\* from on
RECURSIVE KeyAtBit(_, _, _)
KeyAtBit(data, from, w) ==
    IF w = 0 THEN 0
    ELSE DataBit(data, from) + 2 * KeyAtBit(data, from + 1, w - 1)

\* how many bytes of its sub-block lie after data byte c (from 1) in a chain
\* of L data bytes in sub-blocks of n
LeftInSubBlock(L, n, c) ==
    MIN(n, L - ((c - 1) \div n) * n) - (((c - 1) % n) + 1)

\* C18: bit extraction.  After each of a sequence of get_key calls with
\* widths in 1..12 over a well-formed chain, the key returned is the number
\* made of the key_size bits of the data bytes (length bytes left out) from
\* the bit position that is the sum of the earlier widths, least significant
\* bit first; shift is the total of the widths modulo 8; and sub_len is the
\* number of data bytes of the current sub-block not yet read.
C18_BitExtraction ==
    (pc = "keys" /\ hist.bits > 0)
    => /\ lzw.key = KeyAtBit(layout[1].b.vals, hist.bits - lzw.key_size,
                             lzw.key_size)
       /\ lzw.shift = hist.bits % 8
       /\ lzw.sub_len = LeftInSubBlock(Len(layout[1].b.vals), layout[1].b.K,
                                       (hist.bits + 7) \div 8)

\* a key of 12 bits has been read from three bytes, each in a sub-block of
\* its own, after an earlier key: one bit of the first and three of the last
C18_Witness ==
    /\ pc = "keys"
    /\ lzw.key_size = 12
    /\ hist.bits = 19
    /\ layout[1].b.K = 1
    /\ layout[1].b.vals = <<165, 255, 165>>
    /\ lzw.key = 3071
    /\ lzw.sub_len = 0

\* C19: the first code must be CLEAR.  While the image of a file whose first
\* code is not 2^K is decoded, no entry has been added and no pixel written,
\* table_is_full, str_len and entry have not been used, and when the call has
\* returned it has returned -1.
C19_FirstCodeClear ==
    \A i \in ImageOfCall :
      (/\ layout[i].b.K \in 1..8
       /\ layout[i].b.first >= 0
       /\ layout[i].b.first # Pow2(layout[i].b.K))
      => /\ lzw.live
            => /\ hist.added = -1
               /\ hist.npix = 0
               /\ table.nentries = Pow2(layout[i].b.K) + 2
               /\ {"table_is_full", "str_len", "entry"} \subseteq lzw.indet
         /\ Returned => result = -1

\* C20: the sentinel is unambiguous.  While a stream is decoded in which
\* every code read so far names an entry of the table, no entry i with
\* 2^K + 2 <= i < nentries has the prefix 0xFFF and every entry 0 .. 2^K - 1
\* has it: an entry has the prefix 0xFFF if and only if it is a literal.
C20_SentinelUnambiguous ==
    (InData /\ ~hist.wild)
    => /\ \A i \in 0..(lzw.clear - 1) : prefix(Slot(table, i)) = NoPrefix
       /\ \A i \in (lzw.clear + 2)..(table.nentries - 1) :
            prefix(Slot(table, i)) # NoPrefix

\* with the table full the code 0xFFF has been read and written, and the
\* pass that began with it as the previous code has added nothing
C20_Witness ==
    /\ InData /\ ~hist.wild
    /\ table.nentries = TableCap
    /\ hist.prev = NoPrefix
    /\ hist.added = -1
    /\ hist.wr # {}

====
